---- MODULE Spec2Model ----
(***************************************************************************)
(* A model of the string-keyed caches of creachadair/cache:                *)
(*   - package lru            (src/lru/lru.go)                             *)
(*   - package lfu, bounded by a number of entries (src/lfu/lfu.go)        *)
(*   - package lfu, bounded by the values' sizes (src/unnamed/part_000)    *)
(* Every public method holds the instance mutex c.μ from its first access  *)
(* of the mutable fields to its return (defer c.μ.Unlock()), so in the     *)
(* sequential specifications one action is one whole method call.          *)
(***************************************************************************)
EXTENDS Integers, Sequences, FiniteSets, TLC

\* ------------------------------------------------------------------ bounds
MaxCap == 3
MaxSize == 2

\* The ids the callers use (Go strings).
Ids == {"a", "b", "c"}
Caps == 0..MaxCap
\* A value is what the cache stores: tag tells two values of one size apart,
\* sz is what its Size() method reports.
Tags == {"p", "q"}
GoodValues == [tag : Tags, sz : 0..MaxSize]
\* A value breaking the contract of Value.Size.
BadValue == [tag |-> "p", sz |-> -1]
Values == GoodValues \cup {BadValue}
\* The nil interface value (no value).
NilValue == [tag |-> "nil", sz |-> 0]

\* Value.Size()
Size(v) == v.sz

\* ------------------------------------------------------------ package lru
VARIABLES lru, lruOp, lruOrder

\* The sentinel entry of the ring, c.seq.
seq == "sentinel"
Nodes == Ids \cup {seq}

\* newEntry: an entry linked to itself. Entries are named by their id: an
\* entry is allocated only for an id with no entry in c.res.
newEntry(c, id, value) ==
  [c EXCEPT !.next[id] = id, !.prev[id] = id, !.value[id] = value]

\* New(capacity, opts...): hasOnEvict tells whether the OnEvict option was given.
LruNew(capacity, hasOnEvict) ==
  [isNil |-> FALSE, size |-> 0, cap |-> capacity,
   next |-> [n \in Nodes |-> n], prev |-> [n \in Nodes |-> n],
   value |-> [n \in Nodes |-> NilValue],
   res |-> << >>, onEvict |-> hasOnEvict,
   notified |-> << >>, victims |-> << >>]

\* A nil *Cache: no field of it is ever read.
LruNilCache == [LruNew(0, FALSE) EXCEPT !.isNil = TRUE]

\* entry.push(after)
push(c, e, after) ==
  LET c1 == [c EXCEPT !.next[e] = c.next[after]]
      c2 == [c1 EXCEPT !.prev[e] = after]
      c3 == [c2 EXCEPT !.prev[c2.next[e]] = e]
  IN [c3 EXCEPT !.next[after] = e]

\* entry.pop()
pop(c, e) ==
  LET c1 == [c EXCEPT !.next[c.prev[e]] = c.next[e]]
      c2 == [c1 EXCEPT !.prev[c1.next[e]] = c1.prev[e]]
      c3 == [c2 EXCEPT !.next[e] = e]
  IN [c3 EXCEPT !.prev[e] = e]

\* delete(m, id) on a Go map
MapDelete(m, id) == [k \in (DOMAIN m) \ {id} |-> m[k]]

\* m[id] = x on a Go map
MapSet(m, id, x) == [k \in (DOMAIN m) \cup {id} |-> IF k = id THEN x ELSE m[k]]

\* The call of the OnEvict callback, when one is installed: the model keeps
\* the values it was passed during the current method call, in order.
callOnEvict(c, v) ==
  IF c.onEvict THEN [c EXCEPT !.notified = Append(c.notified, v)] ELSE c

\* LruEvict with the entry's value overwritten before the callback is called.
LruEvictNotifyNew(c, id, value) ==
  IF id \in DOMAIN c.res
  THEN LET e == c.res[id]
           c1 == pop(c, e)
           c2 == callOnEvict(c1, value)
           c3 == [c2 EXCEPT !.res = MapDelete(c2.res, id)]
           c4 == [c3 EXCEPT !.size = c3.size - Size(c3.value[e])]
       IN [c4 EXCEPT !.value[e] = value]
  ELSE c

\* LruEvict without c.size -= e.value.Size().
LruEvictKeepSize(c, id, value) ==
  IF id \in DOMAIN c.res
  THEN LET e == c.res[id]
           c1 == pop(c, e)
           c2 == callOnEvict(c1, c1.value[e])
           c3 == [c2 EXCEPT !.res = MapDelete(c2.res, id)]
       IN [c3 EXCEPT !.value[e] = value]
  ELSE c

\* LruEvict leaving the entry in the ring (no e.pop()).
LruEvictNoPop(c, id, value) ==
  IF id \in DOMAIN c.res
  THEN LET e == c.res[id]
           c2 == callOnEvict(c, c.value[e])
           c3 == [c2 EXCEPT !.res = MapDelete(c2.res, id)]
           c4 == [c3 EXCEPT !.size = c3.size - Size(c3.value[e])]
       IN [c4 EXCEPT !.value[e] = value]
  ELSE c

\* Cache.evict(id, value): the cache afterwards; LruEvicted tells whether an
\* entry was returned (the entry returned is c.res[id] and its value field is
\* the value passed in).
LruEvict(c, id, value) ==
  IF id \in DOMAIN c.res
  THEN LET e == c.res[id]
           c1 == pop(c, e)
           c2 == callOnEvict(c1, c1.value[e])
           c3 == [c2 EXCEPT !.res = MapDelete(c2.res, id)]
           c4 == [c3 EXCEPT !.size = c3.size - Size(c3.value[e])]
       IN [c4 EXCEPT !.value[e] = value]
  ELSE c

\* LruMakeRoom with the new value's size left out of the loop's test.
RECURSIVE LruMakeRoomIgnoreNew(_, _)
LruMakeRoomIgnoreNew(c, vsize) ==
  IF c.size > c.cap
  THEN LET vic == c.prev[seq]
       IN IF vic = seq
          THEN [c |-> c, fault |-> "invalid ring structure"]
          ELSE LruMakeRoomIgnoreNew([LruEvict(c, vic, NilValue)
                              EXCEPT !.victims = Append(c.victims, vic)], vsize)
  ELSE [c |-> c, fault |-> ""]

\* The loop of Cache.Put that makes room for vsize. fault is set when the
\* loop reaches panic("invalid ring structure").
RECURSIVE LruMakeRoom(_, _)
LruMakeRoom(c, vsize) ==
  IF c.size + vsize > c.cap
  THEN LET vic == c.prev[seq]
       IN IF vic = seq
          THEN [c |-> c, fault |-> "invalid ring structure"]
          ELSE LruMakeRoom([LruEvict(c, vic, NilValue)
                              EXCEPT !.victims = Append(c.victims, vic)], vsize)
  ELSE [c |-> c, fault |-> ""]

\* LruPut adding the new size without taking off the replaced value's.
LruPutDoubleCount(c, id, value) ==
  IF ~c.isNil /\ c.cap > 0 /\ Size(value) >= 0 /\ Size(value) <= c.cap
  THEN LET c1 == IF id \in DOMAIN c.res
                 THEN [LruEvict(c, id, value) EXCEPT !.size = c.size]
                 ELSE newEntry(c, id, value)
           r == LruMakeRoom(c1, Size(value))
           c2 == push(r.c, id, seq)
           c3 == [c2 EXCEPT !.size = c2.size + Size(value)]
       IN [c |-> [c3 EXCEPT !.res = MapSet(c3.res, id, id)], ret |-> NilValue, fault |-> r.fault]
  ELSE [c |-> c, ret |-> NilValue, fault |-> ""]

\* LruPut with the entry of id evicted before the value's size is tested
\* against the capacity.
LruPutEvictFirst(c, id, value) ==
  IF ~c.isNil /\ c.cap > 0
  THEN LET vsize == Size(value)
           c1 == IF id \in DOMAIN c.res
                 THEN LruEvict(c, id, value)
                 ELSE newEntry(c, id, value)
           r == LruMakeRoom(c1, vsize)
           c2 == push(r.c, id, seq)
           c3 == [c2 EXCEPT !.size = c2.size + vsize]
           c4 == [c3 EXCEPT !.res = MapSet(c3.res, id, id)]
       IN IF vsize < 0
          THEN [c |-> c, ret |-> NilValue, fault |-> "negative value size"]
          ELSE IF vsize > c.cap
          THEN [c |-> IF id \in DOMAIN c.res THEN LruEvict(c, id, NilValue) ELSE c,
                ret |-> NilValue, fault |-> ""]
          ELSE IF r.fault # ""
          THEN [c |-> r.c, ret |-> NilValue, fault |-> r.fault]
          ELSE [c |-> c4, ret |-> NilValue, fault |-> ""]
  ELSE [c |-> c, ret |-> NilValue, fault |-> ""]

\* LruPut without the test of the capacity before the value is asked its size.
LruPutNoCapTest(c, id, value) ==
  IF ~c.isNil
  THEN LET vsize == Size(value)
       IN IF vsize < 0
          THEN [c |-> c, ret |-> NilValue, fault |-> "negative value size"]
          ELSE IF vsize > c.cap
          THEN [c |-> c, ret |-> NilValue, fault |-> ""]
          ELSE LET c1 == IF id \in DOMAIN c.res
                         THEN LruEvict(c, id, value)
                         ELSE newEntry(c, id, value)
                   r == LruMakeRoom(c1, vsize)
                   c2 == push(r.c, id, seq)
                   c3 == [c2 EXCEPT !.size = c2.size + vsize]
                   c4 == [c3 EXCEPT !.res = MapSet(c3.res, id, id)]
               IN IF r.fault # ""
                  THEN [c |-> r.c, ret |-> NilValue, fault |-> r.fault]
                  ELSE [c |-> c4, ret |-> NilValue, fault |-> ""]
  ELSE [c |-> c, ret |-> NilValue, fault |-> ""]

\* Cache.Put(id, value): [c: the cache afterwards, ret, fault: the panic, if any]
LruPut(c, id, value) ==
  IF ~c.isNil /\ c.cap > 0
  THEN LET vsize == Size(value)
       IN IF vsize < 0
          THEN [c |-> c, ret |-> NilValue, fault |-> "negative value size"]
          ELSE IF vsize > c.cap
          THEN [c |-> c, ret |-> NilValue, fault |-> ""]
          ELSE LET c1 == IF id \in DOMAIN c.res
                         THEN LruEvict(c, id, value)
                         ELSE newEntry(c, id, value)
                   e == id
                   r == LruMakeRoom(c1, vsize)
                   c2 == push(r.c, e, seq)
                   c3 == [c2 EXCEPT !.size = c2.size + vsize]
                   c4 == [c3 EXCEPT !.res = MapSet(c3.res, id, e)]
               IN IF r.fault # ""
                  THEN [c |-> r.c, ret |-> NilValue, fault |-> r.fault]
                  ELSE [c |-> c4, ret |-> NilValue, fault |-> ""]
  ELSE [c |-> c, ret |-> NilValue, fault |-> ""]

\* Cache.Drop(id)
LruDrop(c, id) ==
  IF ~c.isNil
  THEN LET c1 == LruEvict(c, id, NilValue)
       IN IF id \in DOMAIN c.res
          THEN [c |-> c1, ret |-> c1.value[c.res[id]], fault |-> ""]
          ELSE [c |-> c1, ret |-> NilValue, fault |-> ""]
  ELSE [c |-> c, ret |-> NilValue, fault |-> ""]

\* LruGet without the move of the entry to the front of the ring.
LruGetNoBump(c, id) ==
  IF ~c.isNil /\ id \in DOMAIN c.res
  THEN [c |-> c, ret |-> c.value[c.res[id]], fault |-> ""]
  ELSE [c |-> c, ret |-> NilValue, fault |-> ""]

\* LruGet moving the entry to the other end of the ring.
LruGetPushBack(c, id) ==
  IF ~c.isNil /\ id \in DOMAIN c.res
  THEN LET e == c.res[id]
           c0 == pop(c, e)
           c1 == IF c.next[seq] # e THEN push(c0, e, c0.prev[seq]) ELSE c
       IN [c |-> c1, ret |-> c1.value[e], fault |-> ""]
  ELSE [c |-> c, ret |-> NilValue, fault |-> ""]

\* Cache.Get(id)
LruGet(c, id) ==
  IF ~c.isNil /\ id \in DOMAIN c.res
  THEN LET e == c.res[id]
           c1 == IF c.next[seq] # e THEN push(pop(c, e), e, seq) ELSE c
       IN [c |-> c1, ret |-> c1.value[e], fault |-> ""]
  ELSE [c |-> c, ret |-> NilValue, fault |-> ""]

\* Cache.Size()
LruSize(c) == IF c.isNil THEN 0 ELSE c.size

\* Cache.Cap()
LruCap(c) == IF c.isNil THEN 0 ELSE c.cap

\* Cache.Reset(): Go ranges over the map c.res in an unspecified order; order
\* is the order this run takes (a sequence of the resident ids).
RECURSIVE LruResetLoop(_, _)
LruResetLoop(c, order) ==
  IF order = << >> THEN c
  ELSE LruResetLoop(LruEvict(c, Head(order), NilValue), Tail(order))

\* LruReset emptying the index alone: the ring and c.size are left as they are
\* and the callback is not called.
LruResetIndexOnly(c, order) ==
  IF ~c.isNil
  THEN [c |-> [c EXCEPT !.res = << >>], ret |-> NilValue, fault |-> ""]
  ELSE [c |-> c, ret |-> NilValue, fault |-> ""]

\* Cache.Reset()
LruReset(c, order) ==
  IF ~c.isNil
  THEN [c |-> LruResetLoop(c, order), ret |-> NilValue, fault |-> ""]
  ELSE [c |-> c, ret |-> NilValue, fault |-> ""]

\* The orders in which a range over a map with these keys may run.
Orders(keys) ==
  {s \in [1..Cardinality(keys) -> keys] : \A i, j \in DOMAIN s : i # j => s[i] # s[j]}

\* ----------------------------------------------- package lru: the actions
\* The start of a method call: the model's record of the callback's calls
\* and of the entries evicted to make room is per call.
Begin(c) == [c EXCEPT !.notified = << >>, !.victims = << >>]

\* s without the elements that fail keep.
RECURSIVE SelectIn(_, _)
SelectIn(s, keep) ==
  IF s = << >> THEN << >>
  ELSE IF Head(s) \in keep THEN <<Head(s)>> \o SelectIn(Tail(s), keep)
  ELSE SelectIn(Tail(s), keep)

\* The resident ids from the most to the least recently touched, kept beside
\* the cache: a touch is a Get that hits or a Put that stores.
Touched(order, c, id) == <<id>> \o SelectIn(order, (DOMAIN c.res) \ {id})
Untouched(order, c) == SelectIn(order, DOMAIN c.res)

\* Whether Put(id, value) stores: the cache exists, has room for the value at
\* all, and the value keeps the contract.
Stores(c, value) == ~c.isNil /\ c.cap > 0 /\ Size(value) >= 0 /\ Size(value) <= c.cap

LruInit ==
  /\ lru \in {LruNew(capacity, h) : capacity \in Caps, h \in BOOLEAN} \cup {LruNilCache}
  /\ lruOp = [op |-> "New", id |-> "", value |-> NilValue, ret |-> NilValue, fault |-> ""]
  /\ lruOrder = << >>

LruPutOp ==
  \E id \in Ids, value \in Values :
    \E r \in {LruPut(Begin(lru), id, value)} :
       /\ lru' = r.c
       /\ lruOp' = [op |-> "Put", id |-> id, value |-> value, ret |-> r.ret, fault |-> r.fault]
       /\ lruOrder' = IF Stores(lru, value) /\ r.fault = ""
                      THEN Touched(lruOrder, r.c, id) ELSE Untouched(lruOrder, r.c)

LruGetOp ==
  \E id \in Ids :
    \E r \in {LruGet(Begin(lru), id)} :
       /\ lru' = r.c
       /\ lruOp' = [op |-> "Get", id |-> id, value |-> NilValue, ret |-> r.ret, fault |-> r.fault]
       /\ lruOrder' = IF r.ret # NilValue
                      THEN Touched(lruOrder, r.c, id) ELSE Untouched(lruOrder, r.c)

LruDropOp ==
  \E id \in Ids :
    \E r \in {LruDrop(Begin(lru), id)} :
       /\ lru' = r.c
       /\ lruOp' = [op |-> "Drop", id |-> id, value |-> NilValue, ret |-> r.ret, fault |-> r.fault]
       /\ lruOrder' = Untouched(lruOrder, r.c)

LruResetOp ==
  \E order \in Orders(IF lru.isNil THEN {} ELSE DOMAIN lru.res) :
    \E r \in {LruReset(Begin(lru), order)} :
       /\ lru' = r.c
       /\ lruOp' = [op |-> "Reset", id |-> "", value |-> NilValue, ret |-> r.ret, fault |-> r.fault]
       /\ lruOrder' = Untouched(lruOrder, r.c)

lruVars == <<lru, lruOp, lruOrder>>

\* ------------------------------------------------------------ package lfu
\* The cache bounded by a number of entries (src/lfu/lfu.go). Go's slice
\* c.heap is indexed from 0: slot p of it is c.heap[p + 1] here.
VARIABLES lfu, lfuOp, lfuLast, lfuUses, log

lfuVars == <<lfu, lfuOp, lfuLast, lfuUses, log>>

\* The ids the callers of an lfu cache use.
LfuIds == {"a", "b", "c", "d"}
\* The values they store: a count-bounded cache never asks a value its size.
LfuValues == {v \in GoodValues : v.sz = 1}
\* The uses counter grows with every Get: the model stops at MaxUses.
MaxUses == 2

\* New(capacity, opts...)
LfuNew(capacity, hasOnEvict) ==
  [isNil |-> FALSE, size |-> 0, cap |-> capacity, heap |-> << >>, res |-> << >>,
   onEvict |-> hasOnEvict, notified |-> << >>, victims |-> << >>]

\* A nil *Cache.
LfuNilCache == [LfuNew(0, FALSE) EXCEPT !.isNil = TRUE]

\* len(c.heap)
HeapLen(c) == Len(c.heap)

\* c.heap[p]
Slot(c, p) == c.heap[p + 1]

\* c.heap[p] = e
SetSlot(c, p, e) == [c EXCEPT !.heap[p + 1] = e]

\* Cache.fix(pos)
RECURSIVE LfuFix(_, _)
LfuFix(c, pos) ==
  IF 2 * pos >= HeapLen(c) THEN c
  ELSE LET rc == 2 * pos + 1
           mc == IF rc < HeapLen(c) /\ Slot(c, rc).uses < Slot(c, 2 * pos).uses
                 THEN rc ELSE 2 * pos
           cur == Slot(c, pos)
           min == Slot(c, mc)
       IN IF cur.uses <= min.uses THEN c
          ELSE LET c1 == SetSlot(c, pos, min)
                   c2 == [c1 EXCEPT !.res = MapSet(c1.res, min.id, pos)]
                   c3 == SetSlot(c2, mc, cur)
                   c4 == [c3 EXCEPT !.res = MapSet(c3.res, cur.id, mc)]
               IN LfuFix(c4, mc)

\* LfuAddLoop moving the new entry up past every parent, to the root.
RECURSIVE LfuAddLoopToRoot(_, _, _)
LfuAddLoopToRoot(c, elt, pos) ==
  IF pos > 0
  THEN LET par == pos \div 2
           up == Slot(c, par)
           c1 == SetSlot(c, par, elt)
           c2 == SetSlot(c1, pos, up)
           c3 == [c2 EXCEPT !.res = MapSet(c2.res, up.id, pos)]
       IN LfuAddLoopToRoot(c3, elt, par)
  ELSE [c EXCEPT !.res = MapSet(c.res, elt.id, pos)]

\* LfuAddLoop moving the new entry up past one parent at most.
LfuAddLoopOnce(c, elt, pos) ==
  IF pos > 0 /\ Slot(c, pos \div 2).uses > 1
  THEN LET par == pos \div 2
           up == Slot(c, par)
           c1 == SetSlot(c, par, elt)
           c2 == SetSlot(c1, pos, up)
           c3 == [c2 EXCEPT !.res = MapSet(c2.res, up.id, pos)]
       IN [c3 EXCEPT !.res = MapSet(c3.res, elt.id, par)]
  ELSE [c EXCEPT !.res = MapSet(c.res, elt.id, pos)]

\* The loop of Cache.add that moves the new entry elt up from slot pos.
RECURSIVE LfuAddLoop(_, _, _)
LfuAddLoop(c, elt, pos) ==
  IF pos > 0 /\ Slot(c, pos \div 2).uses > 1
  THEN LET par == pos \div 2
           up == Slot(c, par)
           c1 == SetSlot(c, par, elt)
           c2 == SetSlot(c1, pos, up)
           c3 == [c2 EXCEPT !.res = MapSet(c2.res, up.id, pos)]
       IN LfuAddLoop(c3, elt, par)
  ELSE [c EXCEPT !.res = MapSet(c.res, elt.id, pos)]

\* LfuAdd leaving the new entry in the last slot.
LfuAddNoMoveUp(c, id, value) ==
  LET pos == HeapLen(c)
      elt == [id |-> id, value |-> value, uses |-> 1]
  IN [c EXCEPT !.heap = Append(c.heap, elt), !.res = MapSet(c.res, id, pos)]

\* Cache.add(id, value)
LfuAdd(c, id, value) ==
  LET pos == HeapLen(c)
      elt == [id |-> id, value |-> value, uses |-> 1]
  IN LfuAddLoop([c EXCEPT !.heap = Append(c.heap, elt)], elt, pos)

\* LfuEvictEntry without delete(c.res, vic.id).
LfuEvictEntryNoDelete(c) ==
  IF HeapLen(c) = 0 THEN [c |-> c, fault |-> "index out of range"]
  ELSE LET vic == Slot(c, 0)
           c1 == callOnEvict(c, vic.value)
           c2 == [c1 EXCEPT !.victims = Append(c1.victims, vic.id)]
           n == HeapLen(c2) - 1
           c3 == SetSlot(c2, 0, Slot(c2, n))
           c4 == [c3 EXCEPT !.heap = SubSeq(c3.heap, 1, n)]
       IN [c |-> LfuFix(c4, 0), fault |-> "", vic |-> vic]

\* Cache.evict() up to its change of c.size: c.heap[0] on an empty heap is an
\* index out of range, a panic before anything is changed.
LfuEvictEntry(c) ==
  IF HeapLen(c) = 0 THEN [c |-> c, fault |-> "index out of range"]
  ELSE LET vic == Slot(c, 0)
           c1 == callOnEvict(c, vic.value)
           c2 == [c1 EXCEPT !.res = MapDelete(c1.res, vic.id),
                            !.victims = Append(c1.victims, vic.id)]
           n == HeapLen(c2) - 1
           c3 == SetSlot(c2, 0, Slot(c2, n))
           c4 == [c3 EXCEPT !.heap = SubSeq(c3.heap, 1, n)]
       IN [c |-> LfuFix(c4, 0), fault |-> "", vic |-> vic]

\* Cache.evict()
LfuEvict(c) ==
  LET r == LfuEvictEntry(c)
  IN IF r.fault # "" THEN [c |-> r.c, fault |-> r.fault]
     ELSE [c |-> [r.c EXCEPT !.size = r.c.size - 1], fault |-> ""]

\* Cache.Put(id, value)
LfuPut(c, id, value) ==
  IF ~c.isNil /\ c.cap > 0
  THEN IF id \notin DOMAIN c.res
       THEN LET r == IF c.size + 1 > c.cap THEN LfuEvict(c) ELSE [c |-> c, fault |-> ""]
                c1 == LfuAdd(r.c, id, value)
            IN IF r.fault # ""
               THEN [c |-> r.c, ret |-> NilValue, fault |-> r.fault]
               ELSE [c |-> [c1 EXCEPT !.size = c1.size + 1], ret |-> NilValue, fault |-> ""]
       ELSE LET pos == c.res[id]
            IN IF pos >= HeapLen(c)
               THEN [c |-> c, ret |-> NilValue, fault |-> "index out of range"]
               ELSE [c |-> [callOnEvict(c, Slot(c, pos).value) EXCEPT !.heap[pos + 1].value = value],
                     ret |-> NilValue, fault |-> ""]
  ELSE [c |-> c, ret |-> NilValue, fault |-> ""]

\* LfuGet with no call of c.fix after elt.uses++.
LfuGetNoFix(c, id) ==
  IF ~c.isNil /\ id \in DOMAIN c.res
  THEN LET pos == c.res[id]
       IN IF pos >= HeapLen(c)
          THEN [c |-> c, ret |-> NilValue, fault |-> "index out of range"]
          ELSE [c |-> [c EXCEPT !.heap[pos + 1].uses = @ + 1],
                ret |-> Slot(c, pos).value, fault |-> ""]
  ELSE [c |-> c, ret |-> NilValue, fault |-> ""]

\* Cache.Get(id)
LfuGet(c, id) ==
  IF ~c.isNil /\ id \in DOMAIN c.res
  THEN LET pos == c.res[id]
       IN IF pos >= HeapLen(c)
          THEN [c |-> c, ret |-> NilValue, fault |-> "index out of range"]
          ELSE [c |-> LfuFix([c EXCEPT !.heap[pos + 1].uses = @ + 1], pos),
                ret |-> Slot(c, pos).value, fault |-> ""]
  ELSE [c |-> c, ret |-> NilValue, fault |-> ""]

\* Cache.Size()
LfuSize(c) == IF c.isNil THEN 0 ELSE c.size

\* Cache.Cap()
LfuCap(c) == IF c.isNil THEN 0 ELSE c.cap

\* The loop of Cache.Reset.
RECURSIVE LfuResetLoop(_)
LfuResetLoop(c) ==
  IF c.size > 0
  THEN LET r == LfuEvict(c)
       IN IF r.fault # "" THEN r ELSE LfuResetLoop(r.c)
  ELSE [c |-> c, fault |-> ""]

\* Cache.Reset()
LfuReset(c) ==
  IF ~c.isNil
  THEN LET r == LfuResetLoop(c) IN [c |-> r.c, ret |-> NilValue, fault |-> r.fault]
  ELSE [c |-> c, ret |-> NilValue, fault |-> ""]

\* ----------------------------------------------- package lfu: the actions
\* Kept beside the cache, from the calls alone: lfuLast[id] is the value of
\* the last Put(id, v) since id was last evicted or reset (NilValue: none),
\* and lfuUses[id] is 1 for that id's admission plus its Get hits since.
\* log is the calls made so far where a test runs a fixed sequence of calls
\* (empty elsewhere).
NoneStored == [id \in LfuIds |-> NilValue]
NoUses == [id \in LfuIds |-> 0]

\* f with x at every id of the sequence ids.
Cleared(f, ids, x) == [id \in DOMAIN f |-> IF \E i \in DOMAIN ids : ids[i] = id THEN x ELSE f[id]]

LfuInit ==
  /\ lfu \in {LfuNew(capacity, h) : capacity \in Caps, h \in BOOLEAN} \cup {LfuNilCache}
  /\ lfuOp = [op |-> "New", id |-> "", value |-> NilValue, ret |-> NilValue, fault |-> ""]
  /\ lfuLast = NoneStored
  /\ lfuUses = NoUses
  /\ log = << >>

LfuPutOp ==
  \E id \in LfuIds, value \in LfuValues :
    \E r \in {LfuPut(Begin(lfu), id, value)} :
       /\ lfu' = r.c
       /\ lfuOp' = [op |-> "Put", id |-> id, value |-> value, ret |-> r.ret, fault |-> r.fault]
       /\ IF ~lfu.isNil /\ lfu.cap > 0 /\ r.fault = ""
          THEN /\ lfuLast' = [Cleared(lfuLast, r.c.victims, NilValue) EXCEPT ![id] = value]
               /\ lfuUses' = [Cleared(lfuUses, r.c.victims, 0)
                                EXCEPT ![id] = IF lfuLast[id] = NilValue THEN 1 ELSE @]
          ELSE /\ lfuLast' = Cleared(lfuLast, r.c.victims, NilValue)
               /\ lfuUses' = Cleared(lfuUses, r.c.victims, 0)

LfuGetOp ==
  \E id \in LfuIds :
    \E r \in {LfuGet(Begin(lfu), id)} :
       /\ lfuUses[id] < MaxUses
       /\ \A p \in 1..Len(r.c.heap) : r.c.heap[p].uses <= MaxUses
       /\ lfu' = r.c
       /\ lfuOp' = [op |-> "Get", id |-> id, value |-> NilValue, ret |-> r.ret, fault |-> r.fault]
       /\ lfuLast' = lfuLast
       /\ lfuUses' = IF r.ret # NilValue THEN [lfuUses EXCEPT ![id] = @ + 1] ELSE lfuUses

LfuResetOp ==
  \E r \in {LfuReset(Begin(lfu))} :
     /\ lfu' = r.c
     /\ lfuOp' = [op |-> "Reset", id |-> "", value |-> NilValue, ret |-> r.ret, fault |-> r.fault]
     /\ lfuLast' = Cleared(lfuLast, r.c.victims, NilValue)
     /\ lfuUses' = Cleared(lfuUses, r.c.victims, 0)

\* ------------------------------------------ package lfu: TestCapacity
\* The capacity of the cache of TestCapacity.
TestCap == 3

\* The ids TestCapacity uses up to its Put of "m".
TestIds == {"x", "y", "z", "e", "m"}

\* The calls of the first rows of TestCapacity's table, in order.
TestCalls ==
  << [op |-> "Put", id |-> "x"], [op |-> "Put", id |-> "y"], [op |-> "Get", id |-> "x"],
     [op |-> "Put", id |-> "z"], [op |-> "Put", id |-> "x"], [op |-> "Get", id |-> "y"],
     [op |-> "Get", id |-> "x"], [op |-> "Put", id |-> "e"], [op |-> "Get", id |-> "z"],
     [op |-> "Get", id |-> "x"], [op |-> "Put", id |-> "m"] >>

\* The rows of the table that are Gets.
GetRows == {i \in DOMAIN TestCalls : TestCalls[i].op = "Get"}

\* The rows of s at the indexes in keep, in order.
RECURSIVE SelectRows(_, _, _)
SelectRows(s, keep, i) ==
  IF i > Len(s) THEN << >>
  ELSE IF i \in keep THEN <<s[i]>> \o SelectRows(s, keep, i + 1)
  ELSE SelectRows(s, keep, i + 1)

\* The call sequences run: the table's, with each Get made or left out.
Scripts ==
  {SelectRows(TestCalls, (DOMAIN TestCalls \ GetRows) \cup keep, 1) : keep \in SUBSET GetRows}

\* Whether the calls l are the start of one of the sequences.
Allowed(l) == \E sc \in Scripts : Len(l) <= Len(sc) /\ SubSeq(sc, 1, Len(l)) = l

TestInit ==
  /\ lfu \in {LfuNew(TestCap, h) : h \in BOOLEAN}
  /\ lfuOp = [op |-> "New", id |-> "", value |-> NilValue, ret |-> NilValue, fault |-> ""]
  /\ lfuLast = NoneStored
  /\ lfuUses = NoUses
  /\ log = << >>

TestPutOp ==
  \E id \in TestIds, value \in LfuValues :
    /\ Allowed(Append(log, [op |-> "Put", id |-> id]))
    /\ \E r \in {LfuPut(Begin(lfu), id, value)} :
         /\ lfu' = r.c
         /\ lfuOp' = [op |-> "Put", id |-> id, value |-> value, ret |-> r.ret, fault |-> r.fault]
    /\ log' = Append(log, [op |-> "Put", id |-> id])
    /\ UNCHANGED <<lfuLast, lfuUses>>

TestGetOp ==
  \E id \in TestIds :
    /\ Allowed(Append(log, [op |-> "Get", id |-> id]))
    /\ \E r \in {LfuGet(Begin(lfu), id)} :
         /\ lfu' = r.c
         /\ lfuOp' = [op |-> "Get", id |-> id, value |-> NilValue, ret |-> r.ret, fault |-> r.fault]
    /\ log' = Append(log, [op |-> "Get", id |-> id])
    /\ UNCHANGED <<lfuLast, lfuUses>>

\* ------------------------------------- package lfu, bounded by value sizes
\* The cache of src/unnamed/part_000 (from its line 146 on): the same heap,
\* with c.size and c.cap in the units of Value.Size().
VARIABLES slfu, slfuOp

slfuVars == <<slfu, slfuOp>>

\* Cache.fix(pos): the text of lfu.go's.
SlfuFix(c, pos) == LfuFix(c, pos)

\* Cache.add(id, value): the text of lfu.go's.
SlfuAdd(c, id, value) == LfuAdd(c, id, value)

\* Cache.evict()
SlfuEvict(c) ==
  LET r == LfuEvictEntry(c)
  IN IF r.fault # "" THEN [c |-> r.c, fault |-> r.fault]
     ELSE [c |-> [r.c EXCEPT !.size = r.c.size - Size(r.vic.value)], fault |-> ""]

\* The loop of Cache.Put that makes room for vsize.
RECURSIVE SlfuMakeRoom(_, _)
SlfuMakeRoom(c, vsize) ==
  IF c.size + vsize > c.cap
  THEN LET r == SlfuEvict(c)
       IN IF r.fault # "" THEN r ELSE SlfuMakeRoom(r.c, vsize)
  ELSE [c |-> c, fault |-> ""]

\* Cache.Put(id, value)
SlfuPut(c, id, value) ==
  IF ~c.isNil /\ c.cap > 0
  THEN LET vsize == Size(value)
       IN IF vsize < 0
          THEN [c |-> c, ret |-> NilValue, fault |-> "negative value size"]
          ELSE IF vsize > c.cap
          THEN [c |-> c, ret |-> NilValue, fault |-> ""]
          ELSE IF id \notin DOMAIN c.res
          THEN LET r == SlfuMakeRoom(c, vsize)
                   c1 == SlfuAdd(r.c, id, value)
               IN IF r.fault # ""
                  THEN [c |-> r.c, ret |-> NilValue, fault |-> r.fault]
                  ELSE [c |-> [c1 EXCEPT !.size = c1.size + vsize], ret |-> NilValue, fault |-> ""]
          ELSE LET pos == c.res[id]
               IN IF pos >= HeapLen(c)
                  THEN [c |-> c, ret |-> NilValue, fault |-> "index out of range"]
                  ELSE [c |-> [callOnEvict(c, Slot(c, pos).value) EXCEPT !.heap[pos + 1].value = value],
                        ret |-> NilValue, fault |-> ""]
  ELSE [c |-> c, ret |-> NilValue, fault |-> ""]

\* Cache.Get(id): the text of lfu.go's.
SlfuGet(c, id) == LfuGet(c, id)

\* Cache.Size()
SlfuSize(c) == IF c.isNil THEN 0 ELSE c.size

\* Cache.Cap()
SlfuCap(c) == IF c.isNil THEN 0 ELSE c.cap

\* The loop of Cache.Reset.
RECURSIVE SlfuResetLoop(_)
SlfuResetLoop(c) ==
  IF c.size > 0
  THEN LET r == SlfuEvict(c)
       IN IF r.fault # "" THEN r ELSE SlfuResetLoop(r.c)
  ELSE [c |-> c, fault |-> ""]

\* Cache.Reset()
SlfuReset(c) ==
  IF ~c.isNil
  THEN LET r == SlfuResetLoop(c) IN [c |-> r.c, ret |-> NilValue, fault |-> r.fault]
  ELSE [c |-> c, ret |-> NilValue, fault |-> ""]

SlfuInit ==
  /\ slfu \in {LfuNew(capacity, h) : capacity \in Caps, h \in BOOLEAN} \cup {LfuNilCache}
  /\ slfuOp = [op |-> "New", id |-> "", value |-> NilValue, ret |-> NilValue, fault |-> ""]

\* The ids and values the callers of a size-bounded lfu cache use.
SlfuIds == {"a", "b", "c"}
SlfuValues == {v \in Values : v.tag = "p"}

SlfuPutOp ==
  \E id \in SlfuIds, value \in SlfuValues :
    \E r \in {SlfuPut(Begin(slfu), id, value)} :
       /\ slfu' = r.c
       /\ slfuOp' = [op |-> "Put", id |-> id, value |-> value, ret |-> r.ret, fault |-> r.fault]

SlfuGetOp ==
  \E id \in SlfuIds :
    \E r \in {SlfuGet(Begin(slfu), id)} :
       /\ \A p \in 1..Len(r.c.heap) : r.c.heap[p].uses <= MaxUses
       /\ slfu' = r.c
       /\ slfuOp' = [op |-> "Get", id |-> id, value |-> NilValue, ret |-> r.ret, fault |-> r.fault]

SlfuResetOp ==
  \E r \in {SlfuReset(Begin(slfu))} :
     /\ slfu' = r.c
     /\ slfuOp' = [op |-> "Reset", id |-> "", value |-> NilValue, ret |-> r.ret, fault |-> r.fault]

\* ------------------------------------- package lru: concurrent goroutines
\* mu is the mutex c.μ: the goroutine holding it, or "free". pc is where each
\* goroutine is in its method call, call is the call it is in, and obs is
\* what the last Size() to return has returned. cbs is the number of calls
\* of the OnEvict callback the goroutine's method call has still to make.
VARIABLES mu, pc, call, obs, cbs

concVars == <<mu, pc, call, obs, cbs>>

\* The goroutines that call into one cache.
Threads == {"t1", "t2"}

\* The ids and values the goroutines use.
ConcIds == {"a", "b"}
ConcValues == {v \in Values : v.tag = "p"}

NoCall == [op |-> "", id |-> "", value |-> NilValue]

ConcCalls ==
  {[op |-> "Put", id |-> id, value |-> v] : id \in ConcIds, v \in ConcValues}
    \cup {[op |-> o, id |-> id, value |-> NilValue] : o \in {"Get", "Drop"}, id \in ConcIds}
    \cup {[op |-> o, id |-> "", value |-> NilValue] : o \in {"Reset", "Size"}}

\* Whether the call reaches c.μ.Lock(): every method returns before it on a
\* nil cache, and Put also on a cache of no capacity, on a value of negative
\* size (a panic) and on a value larger than the capacity.
ReachesLock(c, k) ==
  /\ ~c.isNil
  /\ k.op = "Put" => (c.cap > 0 /\ Size(k.value) >= 0 /\ Size(k.value) <= c.cap)

ConcInit ==
  /\ mu = "free"
  /\ pc = [t \in Threads |-> "idle"]
  /\ call = [t \in Threads |-> NoCall]
  /\ obs = 0
  /\ cbs = [t \in Threads |-> 0]

\* A goroutine calls a method and runs it up to c.μ.Lock(), or to its return
\* when it returns before that.
ConcCall(t) ==
  /\ pc[t] = "idle"
  /\ \E k \in ConcCalls :
       IF ReachesLock(lru, k)
       THEN /\ pc' = [pc EXCEPT ![t] = "lock"]
            /\ call' = [call EXCEPT ![t] = k]
            /\ obs' = obs
       ELSE /\ UNCHANGED <<pc, call>>
            /\ obs' = IF k.op = "Size" THEN LruSize(lru) ELSE obs
  /\ UNCHANGED <<mu, lruVars>>

\* ConcLock for a mutex that the goroutine holding it may lock again.
ConcLockAgain(t) ==
  /\ pc[t] = "lock" /\ mu \in {"free", t}
  /\ mu' = t
  /\ pc' = [pc EXCEPT ![t] = "locked"]
  /\ UNCHANGED <<call, obs, lruVars>>

\* c.μ.Lock()
ConcLock(t) ==
  /\ pc[t] = "lock" /\ mu = "free"
  /\ mu' = t
  /\ pc' = [pc EXCEPT ![t] = "locked"]
  /\ UNCHANGED <<call, obs, lruVars>>

\* What the method does to the cache while it holds the mutex.
ConcEffect(c, k, order) ==
  IF k.op = "Put" THEN LruPut(c, k.id, k.value).c
  ELSE IF k.op = "Get" THEN LruGet(c, k.id).c
  ELSE IF k.op = "Drop" THEN LruDrop(c, k.id).c
  ELSE IF k.op = "Reset" THEN LruReset(c, order).c
  ELSE c

\* The method's body, from c.μ.Lock() to its return.
ConcBody(t) ==
  /\ pc[t] = "locked" /\ mu = t
  /\ \E order \in Orders(IF call[t].op = "Reset" THEN DOMAIN lru.res ELSE {}) :
       lru' = ConcEffect(Begin(lru), call[t], order)
  /\ obs' = IF call[t].op = "Size" THEN LruSize(lru) ELSE obs
  /\ pc' = [pc EXCEPT ![t] = "unlock"]
  /\ call' = [call EXCEPT ![t] = NoCall]
  /\ UNCHANGED <<mu, lruOp, lruOrder>>

\* The deferred c.μ.Unlock(), and the return.
ConcUnlock(t) ==
  /\ pc[t] = "unlock" /\ mu = t
  /\ mu' = "free"
  /\ pc' = [pc EXCEPT ![t] = "idle"]
  /\ UNCHANGED <<call, obs, lruVars>>

\* ------------------------------- goroutines on a cache of any package
\* One cache is in use (the others are nil caches) and mu is its mutex. The
\* positions of a goroutine, pc: "idle"; "panic", out of a method call by
\* a panic; "lock", at c.μ.Lock(); "locked", past it; "callback" and
\* "callbackThenPanic", in the method's calls of the callback (the second
\* when the method panics after them); "unlock", at the deferred
\* c.μ.Unlock() of a return, and "unwind", at that of a panic.
Live == IF ~lru.isNil THEN "lru" ELSE IF ~lfu.isNil THEN "lfu" ELSE "slfu"
TheCache == IF Live = "lru" THEN lru ELSE IF Live = "lfu" THEN lfu ELSE slfu

\* The capacities of the caches the goroutines call into.
MaxLockCap == 2
LockCaps == 1..MaxLockCap

\* The values the goroutines store: one of a negative size, one that fits
\* every cache and one that does not fit the smallest.
LockValues == {v \in ConcValues : Size(v) # 0}

\* The calls the goroutines make on a cache of package e.
LockCalls(e) ==
  {[op |-> "Put", id |-> id, value |-> v] : id \in ConcIds,
      v \in IF e = "lfu" THEN LockValues \cap LfuValues ELSE LockValues}
    \cup {[op |-> "Get", id |-> id, value |-> NilValue] : id \in ConcIds}
    \cup {[op |-> "Drop", id |-> id, value |-> NilValue] : id \in IF e = "lru" THEN ConcIds ELSE {}}
    \cup {[op |-> o, id |-> "", value |-> NilValue] : o \in {"Reset", "Size"}}

\* PreLock with no test of the sign of the value's size.
PreLockNoSignTest(e, c, k) ==
  IF c.isNil THEN "return"
  ELSE IF k.op # "Put" THEN "lock"
  ELSE IF c.cap <= 0 THEN "return"
  ELSE IF e = "lru" /\ Size(k.value) > c.cap THEN "return"
  ELSE "lock"

\* How the call k on the cache c of package e goes up to c.μ.Lock(): it
\* returns before it, panics before it, or gets to it.
PreLock(e, c, k) ==
  IF c.isNil THEN "return"
  ELSE IF k.op # "Put" THEN "lock"
  ELSE IF c.cap <= 0 THEN "return"
  ELSE IF e # "lfu" /\ Size(k.value) < 0 THEN "panic"
  ELSE IF e = "lru" /\ Size(k.value) > c.cap THEN "return"
  ELSE "lock"

\* The method's body under the mutex: [c, ret, fault].
Effect(e, c, k, order) ==
  IF k.op = "Size" THEN [c |-> c, ret |-> NilValue, fault |-> ""]
  ELSE IF e = "lru"
  THEN IF k.op = "Put" THEN LruPut(c, k.id, k.value)
       ELSE IF k.op = "Get" THEN LruGet(c, k.id)
       ELSE IF k.op = "Drop" THEN LruDrop(c, k.id)
       ELSE LruReset(c, order)
  ELSE IF e = "lfu"
  THEN IF k.op = "Put" THEN LfuPut(c, k.id, k.value)
       ELSE IF k.op = "Get" THEN LfuGet(c, k.id)
       ELSE LfuReset(c)
  ELSE IF k.op = "Put" THEN SlfuPut(c, k.id, k.value)
       ELSE IF k.op = "Get" THEN SlfuGet(c, k.id)
       ELSE SlfuReset(c)

\* The Gets called and not yet run, and the largest use count in the heap:
\* a Get is called only while the use counts stay within MaxUses.
PendingGets == Cardinality({t \in Threads : pc[t] \in {"lock", "locked"} /\ call[t].op = "Get"})
RECURSIVE MaxUsesIn(_)
MaxUsesIn(h) ==
  IF h = << >> THEN 0
  ELSE LET r == MaxUsesIn(Tail(h)) IN IF Head(h).uses > r THEN Head(h).uses ELSE r
UsesBounded(k) ==
  (Live # "lru" /\ k.op = "Get") => MaxUsesIn(TheCache.heap) + PendingGets < MaxUses

LockInit ==
  /\ \/ /\ lru \in {LruNew(capacity, h) : capacity \in LockCaps, h \in BOOLEAN}
        /\ lfu = LfuNilCache /\ slfu = LfuNilCache
     \/ /\ lfu \in {LfuNew(capacity, h) : capacity \in LockCaps, h \in BOOLEAN}
        /\ lru = LruNilCache /\ slfu = LfuNilCache
     \/ /\ slfu \in {LfuNew(capacity, h) : capacity \in LockCaps, h \in BOOLEAN}
        /\ lru = LruNilCache /\ lfu = LfuNilCache
  /\ lruOp = [op |-> "New", id |-> "", value |-> NilValue, ret |-> NilValue, fault |-> ""]
  /\ lruOrder = << >>
  /\ lfuOp = lruOp /\ slfuOp = lruOp
  /\ lfuLast = NoneStored /\ lfuUses = NoUses /\ log = << >>
  /\ ConcInit

\* The variables of the caches other than the caches themselves.
opVars == <<lruOp, lruOrder, lfuOp, lfuLast, lfuUses, log, slfuOp>>

\* A goroutine calls a method, which runs up to c.μ.Lock(), to a panic
\* before it, or to a return before it (the goroutine is then idle again).
LockCall(t) ==
  /\ pc[t] = "idle"
  /\ \E k \in LockCalls(Live) :
       /\ UsesBounded(k)
       /\ IF PreLock(Live, TheCache, k) = "return"
          THEN UNCHANGED <<pc, call>>
          ELSE /\ pc' = [pc EXCEPT ![t] = PreLock(Live, TheCache, k)]
               /\ call' = [call EXCEPT ![t] = k]
  /\ UNCHANGED <<mu, obs, cbs, lru, lfu, slfu, opVars>>

\* The method's body, from c.μ.Lock() to its return or panic, the calls of
\* the callback aside: they are counted in cbs and made one by one in
\* LockCallback, before the mutex is unlocked.
BodyOf(t, k) ==
  /\ pc[t] = "locked" /\ mu = t
  /\ \E order \in Orders(IF Live = "lru" /\ k.op = "Reset" THEN DOMAIN lru.res ELSE {}) :
       \E r \in {Effect(Live, Begin(TheCache), k, order)} :
          /\ lru' = IF Live = "lru" THEN Begin(r.c) ELSE lru
          /\ lfu' = IF Live = "lfu" THEN Begin(r.c) ELSE lfu
          /\ slfu' = IF Live = "slfu" THEN Begin(r.c) ELSE slfu
          /\ cbs' = [cbs EXCEPT ![t] = Len(r.c.notified)]
          /\ pc' = [pc EXCEPT ![t] =
                      IF r.c.notified # << >>
                      THEN IF r.fault # "" THEN "callbackThenPanic" ELSE "callback"
                      ELSE IF r.fault # "" THEN "unwind" ELSE "unlock"]
          /\ call' = [call EXCEPT ![t] = IF r.c.notified # << >> THEN call[t] ELSE NoCall]
  /\ obs' = IF k.op = "Size" THEN TheCache.size ELSE obs
  /\ UNCHANGED <<mu, opVars>>

\* The body of the method the goroutine has called.
LockBody(t) == BodyOf(t, call[t])

\* A goroutine calls a method, as in LockCall; which method it has called,
\* with which arguments, is left open until the method's body runs. Nothing
\* between the call and c.μ.Lock() depends on it but the way to the mutex.
FairCall(t) ==
  /\ pc[t] = "idle"
  /\ \E k \in LockCalls(Live) :
       IF PreLock(Live, TheCache, k) = "return"
       THEN UNCHANGED pc
       ELSE pc' = [pc EXCEPT ![t] = PreLock(Live, TheCache, k)]
  /\ UNCHANGED <<mu, call, obs, cbs, lru, lfu, slfu, opVars>>

\* The body of a method that gets to c.μ.Lock().
FairBody(t) ==
  \E k \in LockCalls(Live) :
    /\ PreLock(Live, TheCache, k) = "lock"
    /\ (Live # "lru" /\ k.op = "Get") => MaxUsesIn(TheCache.heap) < MaxUses
    /\ BodyOf(t, k)

\* A call of the callback returns.
LockCallback(t) ==
  /\ pc[t] \in {"callback", "callbackThenPanic"} /\ cbs[t] > 0
  /\ cbs' = [cbs EXCEPT ![t] = cbs[t] - 1]
  /\ pc' = [pc EXCEPT ![t] =
              IF cbs[t] > 1 THEN pc[t]
              ELSE IF pc[t] = "callback" THEN "unlock" ELSE "unwind"]
  /\ call' = [call EXCEPT ![t] = IF cbs[t] > 1 THEN call[t] ELSE NoCall]
  /\ UNCHANGED <<mu, obs, lru, lfu, slfu, opVars>>

\* The callback calls a method of the cache it was called by: the method
\* returns before c.μ.Lock() and the callback goes on, or panics before it
\* and the panic unwinds the method that called the callback, or gets to
\* c.μ.Lock() in the goroutine that holds the mutex.
LockReenter(t) ==
  /\ pc[t] \in {"callback", "callbackThenPanic"} /\ cbs[t] > 0
  /\ \E k \in LockCalls(Live) :
       /\ call' = [call EXCEPT ![t] = k]
       /\ pc' = [pc EXCEPT ![t] =
                   IF PreLock(Live, TheCache, k) = "lock" THEN "lock"
                   ELSE IF PreLock(Live, TheCache, k) = "panic" THEN "unwind"
                   ELSE pc[t]]
       /\ cbs' = [cbs EXCEPT ![t] = IF PreLock(Live, TheCache, k) = "panic" THEN 0 ELSE cbs[t]]
  /\ UNCHANGED <<mu, obs, lru, lfu, slfu, opVars>>

\* LockUnwind for a method that unlocks before its return and not by defer:
\* a panic leaves the mutex locked.
LockUnwindKeepLock(t) ==
  /\ pc[t] = "unwind" /\ mu = t
  /\ mu' = mu
  /\ pc' = [pc EXCEPT ![t] = "panic"]
  /\ call' = [call EXCEPT ![t] = NoCall]
  /\ UNCHANGED <<obs, cbs, lru, lfu, slfu, opVars>>

\* The deferred c.μ.Unlock() of a method that panics.
LockUnwind(t) ==
  /\ pc[t] = "unwind" /\ mu = t
  /\ mu' = "free"
  /\ pc' = [pc EXCEPT ![t] = "panic"]
  /\ call' = [call EXCEPT ![t] = NoCall]
  /\ UNCHANGED <<obs, cbs, lru, lfu, slfu, opVars>>

\* The caller recovers from the panic and goes on.
LockRecover(t) ==
  /\ pc[t] = "panic"
  /\ pc' = [pc EXCEPT ![t] = "idle"]
  /\ call' = [call EXCEPT ![t] = NoCall]
  /\ UNCHANGED <<mu, obs, cbs, lru, lfu, slfu, opVars>>

vars == <<lru, lruOp, lruOrder, mu, pc, call, obs, cbs, lfu, lfuOp, lfuLast, lfuUses, log, slfu, slfuOp>>

\* ------------------------------------------------------ the specifications
\* Each specification runs one cache; the others are left as nil caches.
LruIdle ==
  /\ lru = LruNilCache
  /\ lruOp = [op |-> "New", id |-> "", value |-> NilValue, ret |-> NilValue, fault |-> ""]
  /\ lruOrder = << >>

LfuIdle ==
  /\ lfu = LfuNilCache
  /\ lfuOp = [op |-> "New", id |-> "", value |-> NilValue, ret |-> NilValue, fault |-> ""]
  /\ lfuLast = NoneStored
  /\ lfuUses = NoUses
  /\ log = << >>

SlfuIdle ==
  /\ slfu = LfuNilCache
  /\ slfuOp = [op |-> "New", id |-> "", value |-> NilValue, ret |-> NilValue, fault |-> ""]

Init == LruInit /\ ConcInit /\ LfuIdle /\ SlfuIdle

Next ==
  \/ LruPutOp /\ UNCHANGED <<concVars, lfuVars, slfuVars>>
  \/ LruGetOp /\ UNCHANGED <<concVars, lfuVars, slfuVars>>
  \/ LruDropOp /\ UNCHANGED <<concVars, lfuVars, slfuVars>>
  \/ LruResetOp /\ UNCHANGED <<concVars, lfuVars, slfuVars>>

\* The lru cache, one caller at a time: a run of whole method calls.
Spec == Init /\ [][Next]_vars

LruConcInit ==
  /\ lru \in {LruNew(capacity, FALSE) : capacity \in Caps} \cup {LruNilCache}
  /\ lruOp = [op |-> "New", id |-> "", value |-> NilValue, ret |-> NilValue, fault |-> ""]
  /\ lruOrder = << >>
  /\ ConcInit /\ LfuIdle /\ SlfuIdle

LruConcNext ==
  \E t \in Threads :
    /\ ConcCall(t) \/ ConcLock(t) \/ ConcBody(t) \/ ConcUnlock(t)
    /\ UNCHANGED <<lfuVars, slfuVars, cbs>>

\* The lru cache with goroutines calling into it, each method holding the mutex.
LruConcSpec == LruConcInit /\ [][LruConcNext]_vars

LfuSpecInit == LfuInit /\ LruIdle /\ ConcInit /\ SlfuIdle

LfuNext ==
  \/ LfuPutOp /\ UNCHANGED <<lruVars, concVars, slfuVars, log>>
  \/ LfuGetOp /\ UNCHANGED <<lruVars, concVars, slfuVars, log>>
  \/ LfuResetOp /\ UNCHANGED <<lruVars, concVars, slfuVars, log>>

\* The lfu cache bounded by a number of entries, one caller at a time.
LfuSpec == LfuSpecInit /\ [][LfuNext]_vars

SlfuSpecInit == SlfuInit /\ LruIdle /\ ConcInit /\ LfuIdle

SlfuNext ==
  \/ SlfuPutOp /\ UNCHANGED <<lruVars, concVars, lfuVars>>
  \/ SlfuGetOp /\ UNCHANGED <<lruVars, concVars, lfuVars>>
  \/ SlfuResetOp /\ UNCHANGED <<lruVars, concVars, lfuVars>>

\* The lfu cache bounded by the values' sizes, one caller at a time.
SlfuSpec == SlfuSpecInit /\ [][SlfuNext]_vars

LockNext ==
  \E t \in Threads :
    \/ LockCall(t)
    \/ ConcLock(t) /\ UNCHANGED <<lfuVars, slfuVars, cbs>>
    \/ LockBody(t)
    \/ LockCallback(t)
    \/ LockReenter(t)
    \/ ConcUnlock(t) /\ UNCHANGED <<lfuVars, slfuVars, cbs>>
    \/ LockUnwind(t)
    \/ LockRecover(t)

\* Goroutines calling into one cache of any of the packages, with callbacks
\* that may call back into the cache.
LockSpec == LockInit /\ [][LockNext]_vars

FairLockNext ==
  \E t \in Threads :
    \/ FairCall(t)
    \/ ConcLock(t) /\ UNCHANGED <<lfuVars, slfuVars, cbs>>
    \/ FairBody(t)
    \/ LockCallback(t)
    \/ ConcUnlock(t) /\ UNCHANGED <<lfuVars, slfuVars, cbs>>
    \/ LockUnwind(t)
    \/ LockRecover(t)

\* What the scheduling gives: the goroutine that holds the mutex goes on
\* running (the method's body, each callback, the deferred unlock: at most
\* one goroutine is at any of these), and a goroutine
\* waiting in c.μ.Lock() gets the mutex once it is free often enough
\* (sync.Mutex hands a starving waiter the mutex). Callers need not call,
\* and need not recover from a panic.
Running(t) ==
  \/ LockCallback(t)
  \/ ConcUnlock(t) /\ UNCHANGED <<lfuVars, slfuVars, cbs>>
  \/ LockUnwind(t)

\* Weak fairness of the method bodies, written out: a body is enabled
\* exactly when its goroutine is at "locked" (C17 checks that it is).
BodyFairness ==
  \/ []<>(\A t \in Threads : pc[t] # "locked")
  \/ []<><<\E t \in Threads : FairBody(t)>>_vars

LockFairness ==
  /\ BodyFairness
  /\ WF_vars(\E t \in Threads : Running(t))
  /\ \A t \in Threads : SF_vars(ConcLock(t) /\ UNCHANGED <<lfuVars, slfuVars, cbs>>)

\* Goroutines calling into one cache, with callbacks that return without
\* calling the cache, under fair scheduling.
FairLockSpec == LockInit /\ [][FairLockNext]_vars /\ LockFairness

TestSpecInit == TestInit /\ LruIdle /\ ConcInit /\ SlfuIdle

TestNext ==
  \/ TestPutOp /\ UNCHANGED <<lruVars, concVars, slfuVars>>
  \/ TestGetOp /\ UNCHANGED <<lruVars, concVars, slfuVars>>

\* The lfu cache of TestCapacity under the calls of its table.
TestSpec == TestSpecInit /\ [][TestNext]_vars

\* The caches of TestEmpties: a nil *Cache and New(0), of each package.
LruEmpties == {LruNilCache} \cup {LruNew(0, h) : h \in BOOLEAN}
LfuEmpties == {LfuNilCache} \cup {LfuNew(0, h) : h \in BOOLEAN}

EmptiesInit ==
  /\ lru \in LruEmpties
  /\ lruOp = [op |-> "New", id |-> "", value |-> NilValue, ret |-> NilValue, fault |-> ""]
  /\ lruOrder = << >>
  /\ lfu \in LfuEmpties
  /\ lfuOp = [op |-> "New", id |-> "", value |-> NilValue, ret |-> NilValue, fault |-> ""]
  /\ lfuLast = NoneStored
  /\ lfuUses = NoUses
  /\ log = << >>
  /\ slfu \in LfuEmpties
  /\ slfuOp = [op |-> "New", id |-> "", value |-> NilValue, ret |-> NilValue, fault |-> ""]
  /\ ConcInit

EmptiesNext ==
  \/ LruPutOp /\ UNCHANGED <<concVars, lfuVars, slfuVars>>
  \/ LruGetOp /\ UNCHANGED <<concVars, lfuVars, slfuVars>>
  \/ LruDropOp /\ UNCHANGED <<concVars, lfuVars, slfuVars>>
  \/ LruResetOp /\ UNCHANGED <<concVars, lfuVars, slfuVars>>
  \/ LfuPutOp /\ UNCHANGED <<lruVars, concVars, slfuVars, log>>
  \/ LfuGetOp /\ UNCHANGED <<lruVars, concVars, slfuVars, log>>
  \/ LfuResetOp /\ UNCHANGED <<lruVars, concVars, slfuVars, log>>
  \/ SlfuPutOp /\ UNCHANGED <<lruVars, concVars, lfuVars>>
  \/ SlfuGetOp /\ UNCHANGED <<lruVars, concVars, lfuVars>>
  \/ SlfuResetOp /\ UNCHANGED <<lruVars, concVars, lfuVars>>

\* A nil cache or a cache of capacity 0 of each package, one caller at a time.
EmptiesSpec == EmptiesInit /\ [][EmptiesNext]_vars

\* ------------------------------------------------ package lru: the claims
\* The sum of Size() over the values stored under ids in c.
RECURSIVE SumSizes(_, _)
SumSizes(c, ids) ==
  IF ids = {} THEN 0
  ELSE LET id == CHOOSE x \in ids : TRUE
       IN Size(c.value[c.res[id]]) + SumSizes(c, ids \ {id})

\* The number of times v occurs in the sequence s.
Count(s, v) == Cardinality({i \in DOMAIN s : s[i] = v})

\* The ids resident in c (a nil cache holds none).
Resident(c) == IF c.isNil THEN {} ELSE DOMAIN c.res

\* The value Get(id) would return, NilValue when it would miss.
Stored(c, id) == IF id \in Resident(c) THEN c.value[c.res[id]] ELSE NilValue

\* C3: Drop(id) of a resident id removes the entry and returns the value that
\* was stored under id; of an id that is not resident it returns nil and
\* changes nothing.
C3_DropReturnsValue ==
  [][lruOp'.op = "Drop" =>
       IF lruOp'.id \in Resident(lru)
       THEN /\ lruOp'.ret = Stored(lru, lruOp'.id)
            /\ lruOp'.ret # NilValue
            /\ lruOp'.id \notin Resident(lru')
       ELSE /\ lruOp'.ret = NilValue
            /\ lru' = Begin(lru)]_vars

\* C10: Size() is the sum of Size() over exactly the resident values.
C10_LruAccounting == LruSize(lru) = SumSizes(lru, Resident(lru))

\* C10 witness: a Put has replaced a resident value by one of another size,
\* with other entries resident.
C10_Witness ==
  /\ lruOp.op = "Put" /\ lruOp.id \in Resident(lru)
  /\ lru.victims = << >> /\ Len(lru.notified) = 1
  /\ Size(lru.notified[1]) # Size(lruOp.value)
  /\ Cardinality(Resident(lru)) >= 2
  /\ lru.size = 3

\* The ids of order (most recently touched first) left after dropping its
\* last k, and the last k from the least recently touched on.
Survivors(order, k) == SubSeq(order, 1, Len(order) - k)
LeastRecent(order, k) == [i \in 1..k |-> order[Len(order) + 1 - i]]

\* The sum of Size() over the values stored under the ids of the sequence s.
SumSeq(c, s) == SumSizes(c, {s[i] : i \in DOMAIN s})

\* C4: the entries a Put evicts to make room are the least recently touched
\* resident entries other than id itself, from the least recently touched
\* on, and as few of them as make the new value fit.
C4_LruEvictionOrder ==
  [][(lruOp'.op = "Put" /\ lruOp'.fault = "" /\ Stores(lru, lruOp'.value)) =>
       LET others == SelectIn(lruOrder, Resident(lru) \ {lruOp'.id})
           k == Len(lru'.victims)
           vsize == Size(lruOp'.value)
       IN /\ k <= Len(others)
          /\ lru'.victims = LeastRecent(others, k)
          /\ SumSeq(lru, Survivors(others, k)) + vsize <= lru.cap
          /\ \A j \in 0..(k - 1) : SumSeq(lru, Survivors(others, j)) + vsize > lru.cap
          /\ Resident(lru') = {others[i] : i \in 1..(Len(others) - k)} \cup {lruOp'.id}]_vars

\* C4 witness: a Put has evicted an entry to make room and another entry,
\* touched more recently, has survived it.
C4_Witness ==
  /\ lruOp.op = "Put" /\ Len(lru.victims) >= 1
  /\ Cardinality(Resident(lru)) >= 2

\* C4, second witness: one Put has evicted two entries.
C4_WitnessTwo == lruOp.op = "Put" /\ Len(lru.victims) = 2

\* The ids whose stored value the step from c to d removes: those no longer
\* resident, and the id a Put that stores replaces the value of.
Removed(c, d, op) ==
  {id \in Resident(c) :
     \/ id \notin Resident(d)
     \/ op.op = "Put" /\ op.id = id /\ op.fault = "" /\ Stores(c, op.value)}

\* C6: with a callback installed, a method call passes it each value the
\* call removes exactly once and nothing else: not a value that stays, not
\* the new value of a replacement, not a value that was never stored.
C6_LruNotifyOnce ==
  [][lru.onEvict =>
       \A v \in Values \cup {NilValue} :
         Count(lru'.notified, v) =
           Cardinality({id \in Removed(lru, lru', lruOp') : Stored(lru, id) = v})]_vars

\* C6 witness: a Put has replaced a value by a different one and evicted
\* another entry, and the callback has been passed both removed values.
C6_Witness ==
  /\ lru.onEvict /\ lruOp.op = "Put"
  /\ Len(lru.notified) = 2 /\ Len(lru.victims) = 1
  /\ lru.notified[1] # lruOp.value

LfuStored == {id \in LfuIds : lfuLast[id] # NilValue}

\* C2: Get(id) returns the value of the last Put(id, v) when id has been Put
\* and not evicted or reset since, and nil otherwise.
C2_LfuGetReturnsStored ==
  (lfuOp.op = "Get" /\ lfuOp.fault = "" /\ lfu.cap >= 1) => lfuOp.ret = lfuLast[lfuOp.id]

\* C5: the entry a Put of an absent id evicts has a use count (1 for its
\* admission plus the Get hits on its id since) no greater than that of any
\* other resident entry.
C5_LfuEvictsLeastUsed ==
  [][(lfuOp'.op = "Put" /\ lfuOp'.fault = "" /\ lfu'.victims # << >>) =>
       \A i \in DOMAIN lfu'.victims : \A id \in LfuStored :
         lfuUses[lfu'.victims[i]] <= lfuUses[id]]_vars

\* The value stored under id in c, by c's own index (NilValue: none).
LfuLookup(c, id) ==
  IF c.isNil \/ id \notin DOMAIN c.res THEN NilValue
  ELSE IF c.res[id] >= HeapLen(c) THEN NilValue
  ELSE Slot(c, c.res[id]).value

\* C7: a Put(id, new) on a resident id calls the callback once, with the
\* value stored under id before; afterwards id maps to new and every other
\* resident id to its own value.
C7_LfuReplaceNotifies ==
  [][(lfuOp'.op = "Put" /\ lfuOp'.id \in LfuStored /\ lfu.onEvict) =>
       /\ lfuOp'.fault = ""
       /\ lfu'.notified = <<lfuLast[lfuOp'.id]>>
       /\ LfuLookup(lfu', lfuOp'.id) = lfuOp'.value
       /\ \A id \in LfuStored \ {lfuOp'.id} : LfuLookup(lfu', id) = lfuLast[id]]_vars

\* ------------------------- package lfu, bounded by value sizes: the claims
\* C8: every Size() lies within [0, Cap()].
C8_SlfuCapacity == 0 <= SlfuSize(slfu) /\ SlfuSize(slfu) <= SlfuCap(slfu)

\* The sum of Size() over the values held in the heap of c.
RECURSIVE HeapSizes(_)
HeapSizes(h) == IF h = << >> THEN 0 ELSE Size(Head(h).value) + HeapSizes(Tail(h))

\* C9: Size() is the sum of Size() over the resident values.
C9_SlfuAccounting == SlfuSize(slfu) = (IF slfu.isNil THEN 0 ELSE HeapSizes(slfu.heap))

\* ------------------------------------------------- nil and New(0) caches
\* What a call on a cache that holds nothing and never fails shows: nothing
\* returned, no panic, no callback.
QuietOp(op, c) == op.ret = NilValue /\ op.fault = "" /\ c.notified = << >>

\* C11: on a nil cache and on a cache of capacity 0, of the lru and of both
\* lfu packages, after any calls nothing is stored, every Get has missed,
\* Size() and Cap() are 0, no callback has been called and no call has failed.
C11_Empties ==
  /\ Resident(lru) = {} /\ LruSize(lru) = 0 /\ LruCap(lru) = 0 /\ QuietOp(lruOp, lru)
  /\ lru.next[seq] = seq /\ lru.prev[seq] = seq
  /\ lfu.res = << >> /\ lfu.heap = << >> /\ LfuSize(lfu) = 0 /\ LfuCap(lfu) = 0
  /\ QuietOp(lfuOp, lfu)
  /\ slfu.res = << >> /\ slfu.heap = << >> /\ SlfuSize(slfu) = 0 /\ SlfuCap(slfu) = 0
  /\ QuietOp(slfuOp, slfu)

\* C11 witness: a Put of a value of size 0 on an lru cache of capacity 0 with
\* a callback, a Put on a nil lfu cache and a Put of a value of negative size
\* on a size-bounded lfu cache of capacity 0 have returned.
C11_Witness ==
  /\ ~lru.isNil /\ lru.onEvict /\ lruOp.op = "Put" /\ Size(lruOp.value) = 0
  /\ lfu.isNil /\ lfuOp.op = "Put"
  /\ ~slfu.isNil /\ slfuOp.op = "Put" /\ Size(slfuOp.value) < 0


\* ------------------------------------------- package lru: further claims
\* The ids of the ring of c from the most recently used one on, following
\* next from the sentinel for at most n steps.
RECURSIVE RingFrom(_, _, _)
RingFrom(c, e, n) ==
  IF e = seq \/ n = 0 THEN << >> ELSE <<e>> \o RingFrom(c, c.next[e], n - 1)
Ring(c) == IF c.isNil THEN << >> ELSE RingFrom(c, c.next[seq], Cardinality(Nodes))

\* C12: a Put of a value larger than the capacity changes nothing: the
\* resident ids, every stored value (that of id included), the order of the
\* ring and Size() stay, nothing is evicted and the callback is not called.
C12_LruOversizedPut ==
  [][(lruOp'.op = "Put" /\ Size(lruOp'.value) > LruCap(lru)) =>
       /\ lruOp'.fault = ""
       /\ Resident(lru') = Resident(lru)
       /\ \A id \in Ids : Stored(lru', id) = Stored(lru, id)
       /\ Ring(lru') = Ring(lru)
       /\ LruSize(lru') = LruSize(lru) /\ LruCap(lru') = LruCap(lru)
       /\ lru'.victims = << >> /\ lru'.notified = << >>
       /\ lru' = Begin(lru)]_vars

\* C12 witness: a Put of a value larger than the capacity has returned, on a
\* cache with a callback where its id is resident with another entry.
C12_Witness ==
  /\ lruOp.op = "Put" /\ lru.cap > 0 /\ Size(lruOp.value) > lru.cap /\ lru.onEvict
  /\ lruOp.id \in Resident(lru) /\ Cardinality(Resident(lru)) = 2
  /\ Ring(lru)[2] = lruOp.id


\* C14: Reset leaves the cache equal to New of the same capacity and options:
\* Size() 0, Cap() as before, the index empty, the ring holding only the
\* sentinel, and (with a callback) every value that was resident passed to
\* the callback exactly once. On an empty cache it changes nothing and calls
\* no callback. The cache being that of New, every later call does what it
\* does on a new cache.
C14_LruReset ==
  [][(lruOp'.op = "Reset" /\ ~lru.isNil) =>
       /\ lruOp'.fault = ""
       /\ LruSize(lru') = 0 /\ LruCap(lru') = LruCap(lru)
       /\ Resident(lru') = {} /\ Ring(lru') = << >>
       /\ lru'.next[seq] = seq /\ lru'.prev[seq] = seq
       /\ Begin(lru') = LruNew(lru.cap, lru.onEvict)
       /\ \A v \in Values \cup {NilValue} :
            Count(lru'.notified, v) =
              IF lru.onEvict THEN Cardinality({id \in Resident(lru) : Stored(lru, id) = v})
              ELSE 0
       /\ Resident(lru) = {} => lru' = Begin(lru)]_vars

\* C14 witness: a Reset has removed three entries, two of them holding the
\* same value, and the callback has been passed the three values.
C14_Witness ==
  /\ lruOp.op = "Reset" /\ lru.onEvict /\ Len(lru.notified) = 3
  /\ Cardinality({lru.notified[i] : i \in 1..3}) = 2
  /\ Resident(lru) = {} /\ lru.size = 0 /\ lru.cap = MaxCap


\* --------------- package lfu, bounded by value sizes: further claims
\* The values held in the heap h, in heap order.
HeapValues(h) == [i \in DOMAIN h |-> h[i].value]

\* C15: Reset ends without a panic and leaves the cache empty: no entry in
\* the heap, none in the index, Size() 0, Cap() as before, and (with a
\* callback) every value that was resident passed to the callback exactly once.
C15_SlfuReset ==
  [][(slfuOp'.op = "Reset" /\ ~slfu.isNil) =>
       /\ slfuOp'.fault = ""
       /\ slfu'.heap = << >> /\ slfu'.res = << >>
       /\ SlfuSize(slfu') = 0 /\ SlfuCap(slfu') = SlfuCap(slfu)
       /\ \A v \in Values \cup {NilValue} :
            Count(slfu'.notified, v) =
              IF slfu.onEvict THEN Count(HeapValues(slfu.heap), v) ELSE 0]_vars


\* ------------------------------------ package lfu: the admission scenario
\* The calls of the scenario up to its last replacement.
ScenarioCalls ==
  << [op |-> "Put", id |-> "x"], [op |-> "Put", id |-> "y"], [op |-> "Get", id |-> "x"],
     [op |-> "Put", id |-> "z"], [op |-> "Put", id |-> "x"] >>
PutE == [op |-> "Put", id |-> "e"]
PutM == [op |-> "Put", id |-> "m"]
GetX == [op |-> "Get", id |-> "x"]
GetY == [op |-> "Get", id |-> "y"]

\* C16 as stated: after exactly Put(x), Put(y), Get(x), Put(z), Put(x) the
\* next call Put(e) evicts z, and the Put(m) after it evicts e.
C16_AdmissionAsStated ==
  /\ log = Append(ScenarioCalls, PutE) => lfu.victims = <<"z">>
  /\ log = ScenarioCalls \o <<PutE, PutM>> => lfu.victims = <<"e">>

\* C16 amended: after Put(x), Put(y), Get(x), Put(z), Put(x), Get(y), Get(x)
\* (the calls TestCapacity makes) the next call Put(e) evicts z, and the
\* Put(m) after it evicts e.
C16_AdmissionOrder ==
  /\ log = ScenarioCalls \o <<GetY, GetX, PutE>> =>
       (lfu.victims = <<"z">> /\ lfuOp.fault = "" /\ DOMAIN lfu.res = {"x", "y", "e"})
  /\ log = ScenarioCalls \o <<GetY, GetX, PutE, PutM>> =>
       (lfu.victims = <<"e">> /\ lfuOp.fault = "" /\ DOMAIN lfu.res = {"x", "y", "m"})

\* C16 witness: the amended sequence has run to its Put(m), on a cache with a
\* callback, and the callback has been passed the value stored under e.
C16_Witness ==
  /\ log = ScenarioCalls \o <<GetY, GetX, PutE, PutM>>
  /\ lfu.onEvict /\ Len(lfu.notified) = 1 /\ lfuOp.op = "Put" /\ lfuOp.id = "m"


\* C19: a Get, hit or miss, leaves Size(), Cap(), the resident ids and every
\* stored value as they were and calls no callback. A hit returns the value
\* stored under id, moves id to the front of the ring and keeps the order of
\* the other entries (nothing changes when id is at the front already); a
\* miss returns nil and changes nothing. The value stored under id is the one
\* most recently Put there: a Put that stores sets it, and no call changes
\* the value stored under an id other than by removing it.
C19_LruGetFrame ==
  [][/\ lruOp'.op = "Get" =>
          /\ lruOp'.fault = ""
          /\ LruSize(lru') = LruSize(lru) /\ LruCap(lru') = LruCap(lru)
          /\ Resident(lru') = Resident(lru)
          /\ \A id \in Ids : Stored(lru', id) = Stored(lru, id)
          /\ lru'.notified = << >> /\ lru'.victims = << >>
          /\ lruOp'.ret = Stored(lru, lruOp'.id)
          /\ IF lruOp'.id \in Resident(lru)
             THEN /\ Ring(lru') = <<lruOp'.id>> \o SelectIn(Ring(lru), Resident(lru) \ {lruOp'.id})
                  /\ Ring(lru)[1] = lruOp'.id => lru' = Begin(lru)
             ELSE lru' = Begin(lru)
     /\ (lruOp'.op = "Put" /\ lruOp'.fault = "" /\ Stores(lru, lruOp'.value)) =>
          Stored(lru', lruOp'.id) = lruOp'.value
     /\ \A id \in Ids :
          (lruOp'.id # id \/ lruOp'.op # "Put") => Stored(lru', id) \in {Stored(lru, id), NilValue}]_vars

\* C19 witness: a Get has hit on a cache holding three entries with a
\* callback, and its id is at the front of the ring.
C19_Witness ==
  /\ lruOp.op = "Get" /\ lruOp.ret # NilValue /\ lru.onEvict
  /\ Cardinality(Resident(lru)) = 3 /\ Ring(lru)[1] = lruOp.id /\ lru.size = lru.cap


\* ------------------------------------------ package lfu: further claims
\* C20: between calls, the index maps every resident id to a slot of the
\* heap that holds the entry of that id, no two ids to the same slot, and
\* every entry of the heap is the entry of a resident id.
C20_LfuIndexAgreement ==
  ~lfu.isNil =>
    /\ \A id \in DOMAIN lfu.res :
         /\ 0 <= lfu.res[id] /\ lfu.res[id] < HeapLen(lfu)
         /\ Slot(lfu, lfu.res[id]).id = id
    /\ \A id1, id2 \in DOMAIN lfu.res : lfu.res[id1] = lfu.res[id2] => id1 = id2
    /\ \A p \in 0..(HeapLen(lfu) - 1) : Slot(lfu, p).id \in DOMAIN lfu.res


\* --------------------------------------------------- the mutex: claims
\* The positions of a goroutine inside a method call, under the mutex.
InLock == {"locked", "callback", "callbackThenPanic", "unlock", "unwind"}

\* Whether k is a Put of a value of negative size.
NegativePut(k) == k.op = "Put" /\ Size(k.value) < 0

\* C13: on an lru or size-bounded lfu cache of capacity > 0, a Put of a
\* value of negative size panics, and only such a Put panics before the
\* mutex is locked; the panic leaves the cache as it was (resident ids,
\* order, Size()), calls no callback and leaves the mutex as it was, never
\* held by the goroutine that panicked, so that the other goroutines' calls
\* go on.
C13_NegativeSizePanics ==
  [][\A t \in Threads :
       /\ (pc[t] = "idle" /\ call'[t] # call[t] /\ Live # "lfu") =>
            (NegativePut(call'[t]) <=> pc'[t] = "panic")
       /\ (pc[t] = "idle" /\ pc'[t] = "panic") =>
            /\ NegativePut(call'[t]) /\ TheCache.cap > 0
            /\ lru' = lru /\ slfu' = slfu /\ lfu' = lfu
            /\ cbs' = cbs /\ mu' = mu /\ mu # t
            /\ \A u \in Threads \ {t} : pc'[u] = pc[u] /\ call'[u] = call[u]
       /\ pc[t] = "panic" => mu # t]_vars

\* C13 witness: a goroutine has panicked in a Put of a value of negative
\* size on a size-bounded lfu cache holding an entry, while the other
\* goroutine holds the mutex in the middle of its own call.
C13_Witness ==
  /\ Live = "slfu" /\ pc["t1"] = "panic" /\ NegativePut(call["t1"])
  /\ slfu.heap # << >> /\ mu = "t2" /\ pc["t2"] = "locked"

\* C17: the mutex is held only by a goroutine inside a method call and
\* never by one that has returned, panicked or is waiting; a method's body
\* under the mutex can always run to its return or panic; and under fair
\* scheduling, with callbacks that do not call the cache, every call that
\* gets to c.μ.Lock() ends, by a return or by a panic.
C17_LockReleased ==
  /\ [](\A t \in Threads : (mu = t) <=> (pc[t] \in InLock))
  /\ [](\A t \in Threads : pc[t] = "locked" => ENABLED <<FairBody(t)>>_vars)
  /\ \A t \in Threads : (pc[t] = "lock") ~> (pc[t] \in {"idle", "panic"})

\* C17 witness: a goroutine has panicked inside a method call of a
\* size-bounded lfu cache whose heap the panic found empty, and the mutex is
\* free again, with the other goroutine waiting for it.
C17_Witness ==
  /\ Live = "slfu" /\ pc["t1"] = "panic" /\ slfu.heap = << >> /\ slfu.size > 0
  /\ mu = "free" /\ pc["t2"] = "lock"

\* Whether goroutine t is in a callback that has called the method call[t]
\* of the cache and got it back (the method returned before c.μ.Lock()).
CalledBack(t) ==
  /\ pc[t] \in {"callback", "callbackThenPanic"}
  /\ PreLock(Live, TheCache, call[t]) # "lock"

\* The part of C18 on the mutex: a callback runs only in the goroutine that
\* holds the mutex, and while callbacks are still to be called or running no
\* step changes the cache.
CallbackUnderLock ==
  /\ \A t \in Threads : cbs[t] > 0 => mu = t
  /\ (\E t \in Threads : cbs[t] > 0) => (lru' = lru /\ lfu' = lfu /\ slfu' = slfu)

\* C18 as stated: callbacks run under the mutex, and a callback that calls
\* Put, Get, Drop, Size or Reset of its cache never returns.
C18_CallbackAsStated ==
  [][/\ CallbackUnderLock
     /\ \A t \in Threads :
          /\ (pc[t] = "lock" /\ mu = t) => (pc'[t] = "lock" /\ mu' = t)
          /\ CalledBack(t) => cbs'[t] >= cbs[t]]_vars

\* C18 amended: callbacks run under the mutex, and a callback that calls a
\* method of its cache that gets to c.μ.Lock() never returns: the goroutine
\* waits for the mutex it holds, for ever. Get, Drop, Size and Reset always
\* get there; the only call a callback gets back from is a Put.
C18_CallbackUnderLock ==
  [][/\ CallbackUnderLock
     /\ \A t \in Threads :
          /\ (pc[t] = "lock" /\ mu = t) => (pc'[t] = "lock" /\ mu' = t)
          /\ CalledBack(t) => call[t].op = "Put"]_vars

\* C18 witness: a callback called by a method of an lru cache has called
\* Get of the cache and waits in c.μ.Lock() while its goroutine holds the
\* mutex, and the other goroutine waits for the mutex too.
C18_Witness ==
  /\ Live = "lru" /\ pc["t1"] = "lock" /\ mu = "t1" /\ call["t1"].op = "Get"
  /\ cbs["t1"] > 0 /\ pc["t2"] = "lock"

\* ------------------------------------- package lfu: the heap, the index
\* C21: between calls, no entry of the heap has a smaller uses counter than
\* its parent, the parent of slot p > 0 being slot p/2 as in add and fix;
\* so no entry has a smaller uses counter than the root.
C21_LfuMinHeap ==
  ~lfu.isNil =>
    /\ \A p \in 1..(HeapLen(lfu) - 1) : Slot(lfu, p \div 2).uses <= Slot(lfu, p).uses
    /\ \A p \in 0..(HeapLen(lfu) - 1) : Slot(lfu, 0).uses <= Slot(lfu, p).uses

\* C21 witness: a Get has hit on a cache of three entries and its entry, now
\* used twice, is in the last slot below two entries used once.
C21_Witness ==
  /\ lfuOp.op = "Get" /\ lfuOp.ret # NilValue /\ HeapLen(lfu) = 3
  /\ Slot(lfu, 0).uses = 1 /\ Slot(lfu, 1).uses = 1
  /\ Slot(lfu, 2).uses = 2 /\ Slot(lfu, 2).id = lfuOp.id

\* ------------------------------------- package lru: the ring, the index
\* The entries of the ring of c, as a set.
RingSet(c) == {Ring(c)[i] : i \in DOMAIN Ring(c)}

\* C22: between calls, next and prev are inverse of each other at the
\* sentinel and at every entry of the ring, the ring from the sentinel comes
\* back to the sentinel, its entries are exactly the entries of the index,
\* no entry (so no id) is in it twice, and c.res[id] is the entry of id.
C22_LruRingIndex ==
  ~lru.isNil =>
    /\ \A n \in RingSet(lru) \cup {seq} :
         lru.prev[lru.next[n]] = n /\ lru.next[lru.prev[n]] = n
    /\ RingFrom(lru, lru.next[seq], Cardinality(Nodes) + 1) = Ring(lru)
    /\ RingSet(lru) = {lru.res[id] : id \in DOMAIN lru.res}
    /\ \A i, j \in DOMAIN Ring(lru) : i # j => Ring(lru)[i] # Ring(lru)[j]
    /\ \A id \in DOMAIN lru.res : lru.res[id] = id

\* C22 witness: a Put has replaced the value of a resident id and evicted
\* another entry to make room (the callback was called twice); two entries
\* are left and the entry of the id is at the front of the ring.
C22_Witness ==
  /\ lruOp.op = "Put" /\ lruOp.fault = "" /\ lru.victims # << >>
  /\ Cardinality(DOMAIN lru.res) = 2 /\ Ring(lru)[1] = lruOp.id
  /\ Len(lru.notified) = 2

\* ------------------------------------------ package lfu: the frames
\* C23: a Put on a resident id does not panic, evicts nothing and leaves
\* the size, the index, and the id and the uses counter in every slot of the
\* heap as they were; the entry of that id holds the new value afterwards
\* and every other entry the value it held.
C23_LfuReplaceFrame ==
  [][(lfuOp'.op = "Put" /\ ~lfu.isNil /\ lfu.cap > 0 /\ lfuOp'.id \in DOMAIN lfu.res) =>
       /\ lfuOp'.fault = "" /\ lfu'.victims = << >>
       /\ lfu'.size = lfu.size /\ lfu'.res = lfu.res
       /\ HeapLen(lfu') = HeapLen(lfu)
       /\ \A p \in 0..(HeapLen(lfu) - 1) :
            /\ Slot(lfu', p).id = Slot(lfu, p).id
            /\ Slot(lfu', p).uses = Slot(lfu, p).uses
            /\ Slot(lfu', p).value =
                 IF Slot(lfu, p).id = lfuOp'.id THEN lfuOp'.value ELSE Slot(lfu, p).value]_vars

\* The slot of the heap of c that holds the entry of id.
SlotOf(c, id) == CHOOSE p \in 0..(HeapLen(c) - 1) : Slot(c, p).id = id

\* The ids of the entries in the heap of c.
HeapIds(c) == {Slot(c, p).id : p \in 0..(HeapLen(c) - 1)}

\* Whether the step is a Put of an absent id that evicts nothing.
PlainInsertion ==
  /\ lfuOp'.op = "Put" /\ ~lfu.isNil /\ lfu.cap > 0
  /\ lfuOp'.id \notin DOMAIN lfu.res /\ lfu.size + 1 <= lfu.cap

\* C24 as stated: a Put of an absent id that evicts nothing leaves every
\* entry with uses > 1 in its slot, with its uses counter.
C24_PlainInsertionAsStated ==
  [][PlainInsertion =>
       \A p \in 0..(HeapLen(lfu) - 1) :
         Slot(lfu, p).uses > 1 => Slot(lfu', p) = Slot(lfu, p)]_vars

\* C24 amended: a Put of an absent id that evicts nothing keeps every entry
\* in the heap with its uses counter, leaves every entry with uses <= 1 in
\* its slot, and moves an entry with uses > 1 from slot p/2 to slot p or
\* not at all.
C24_PlainInsertion ==
  [][PlainInsertion =>
       /\ lfuOp'.fault = "" /\ HeapLen(lfu') = HeapLen(lfu) + 1
       /\ \A p \in 0..(HeapLen(lfu) - 1) :
            /\ Slot(lfu, p).id \in HeapIds(lfu')
            /\ Slot(lfu', SlotOf(lfu', Slot(lfu, p).id)) = Slot(lfu, p)
            /\ Slot(lfu, p).uses <= 1 => SlotOf(lfu', Slot(lfu, p).id) = p
            /\ Slot(lfu, p).uses > 1 =>
                 \/ SlotOf(lfu', Slot(lfu, p).id) = p
                 \/ /\ SlotOf(lfu', Slot(lfu, p).id) > p
                    /\ SlotOf(lfu', Slot(lfu, p).id) \div 2 = p]_vars

\* C24 witness: a Put has admitted an id to a cache of two entries with
\* nothing evicted; the new entry is in slot 1, above the entry used twice
\* that it was swapped past and below an entry used once.
C24_Witness ==
  /\ lfuOp.op = "Put" /\ lfuOp.fault = "" /\ lfu.victims = << >> /\ HeapLen(lfu) = 3
  /\ Slot(lfu, 1).id = lfuOp.id /\ Slot(lfu, 1).uses = 1
  /\ Slot(lfu, 0).uses = 1 /\ Slot(lfu, 2).uses = 2 /\ lfuUses[lfuOp.id] = 1

\* Whether the step is a Put that admits an absent id, and the cache as
\* Put hands it to add: after c.evict() when the cache was full.
Admission ==
  /\ lfuOp'.op = "Put" /\ lfuOp'.fault = "" /\ ~lfu.isNil /\ lfu.cap > 0
  /\ lfuOp'.id \notin DOMAIN lfu.res
BeforeAdd == IF lfu.size + 1 > lfu.cap THEN LfuEvict(Begin(lfu)).c ELSE lfu

\* C25: after a Put has admitted an absent id, the new entry has uses = 1
\* and is at the root or below a parent (slot p/2) with uses <= 1; of the
\* entries add found in the heap, those that moved had uses > 1 and moved
\* from the slot p/2 to the slot p the new entry passed through, and those
\* with uses <= 1 did not move.
C25_LfuInsertionPosition ==
  [][Admission =>
       /\ lfuOp'.id \in HeapIds(lfu')
       /\ Slot(lfu', SlotOf(lfu', lfuOp'.id)).uses = 1
       /\ \/ SlotOf(lfu', lfuOp'.id) = 0
          \/ Slot(lfu', SlotOf(lfu', lfuOp'.id) \div 2).uses <= 1
       /\ HeapLen(lfu') = HeapLen(BeforeAdd) + 1
       /\ \A p \in 0..(HeapLen(BeforeAdd) - 1) :
            /\ Slot(BeforeAdd, p).id \in HeapIds(lfu')
            /\ Slot(lfu', SlotOf(lfu', Slot(BeforeAdd, p).id)) = Slot(BeforeAdd, p)
            /\ Slot(BeforeAdd, p).uses <= 1 => Slot(lfu', p) = Slot(BeforeAdd, p)
            /\ Slot(lfu', p) # Slot(BeforeAdd, p) =>
                 /\ Slot(BeforeAdd, p).uses > 1
                 /\ SlotOf(lfu', Slot(BeforeAdd, p).id) > p
                 /\ SlotOf(lfu', Slot(BeforeAdd, p).id) \div 2 = p
                 /\ SlotOf(lfu', lfuOp'.id) <= p]_vars

\* C25 witness: a Put has admitted an id to a full cache of three entries,
\* evicting one; the new entry is in slot 1 below an entry used once, and
\* the entry used twice that it was swapped past is in slot 2.
C25_Witness ==
  /\ lfuOp.op = "Put" /\ lfuOp.fault = "" /\ lfu.victims # << >> /\ HeapLen(lfu) = 3
  /\ Slot(lfu, 1).id = lfuOp.id /\ Slot(lfu, 1).uses = 1
  /\ Slot(lfu, 0).uses = 1 /\ Slot(lfu, 2).uses = 2

\* C27: between calls, the ids of the index are the ids of the entries in
\* the heap, no id is in the heap twice, Size() is the length of the heap
\* and the number of ids in the index and is at most Cap(), and the ids the
\* last call evicted are in neither.
C27_LfuResidency ==
  /\ LfuSize(lfu) <= LfuCap(lfu)
  /\ ~lfu.isNil =>
       /\ DOMAIN lfu.res = HeapIds(lfu)
       /\ \A p, q \in 0..(HeapLen(lfu) - 1) : Slot(lfu, p).id = Slot(lfu, q).id => p = q
       /\ LfuSize(lfu) = HeapLen(lfu)
       /\ LfuSize(lfu) = Cardinality(DOMAIN lfu.res)
       /\ \A i \in DOMAIN lfu.victims :
            lfu.victims[i] \notin DOMAIN lfu.res /\ lfu.victims[i] \notin HeapIds(lfu)

\* C27 witness: a Put has admitted an id to a full cache of three entries
\* and evicted another, and the index is stale for an entry that the
\* eviction moved.
C27_Witness ==
  /\ lfuOp.op = "Put" /\ lfu.victims # << >> /\ lfu.size = 3 /\ lfu.cap = 3
  /\ \E id \in DOMAIN lfu.res : Slot(lfu, lfu.res[id]).id # id

\* ------------------------------------ package lru: the panic of the loop
\* C26: no call panics with "invalid ring structure": the loop of Put that
\* makes room never finds the ring empty while the new value does not fit.
C26_LruNoRingPanic == lruOp.fault # "invalid ring structure"

\* C26 witness: a Put of a value as large as the capacity has evicted every
\* entry of a ring of two, so that its loop ended on the sentinel alone,
\* and stored the value.
C26_Witness ==
  /\ lruOp.op = "Put" /\ lruOp.fault = "" /\ Len(lru.victims) = 2
  /\ Size(lruOp.value) = lru.cap /\ lru.size = lru.cap
  /\ Ring(lru) = <<lruOp.id>>
  /\ \A i \in DOMAIN lru.victims : lru.victims[i] # lruOp.id

====
